---------------------------- MODULE Spec2Model ----------------------------
(***************************************************************************)
(* Model of the Sound Map recording core: the useRecording session         *)
(* controller (src/src/hooks/useRecording.ts), the AudioService capture    *)
(* wrapper (src/unnamed/part_004, first class) and the DatabaseService     *)
(* recording store (src/src/database/DatabaseService.ts with the queries   *)
(* of src/unnamed/part_001).                                               *)
(*                                                                         *)
(* Number representation.  JavaScript numbers are modelled exactly by      *)
(* integers and reduced fractions:                                         *)
(*   - a raw metering sample is an integer count of 0.01 dB;               *)
(*   - a converted level (liveLevel, liveMin, liveMax, liveMaxRef,         *)
(*     levelSumRef) is an integer count of 0.1 dB;                         *)
(*   - a quotient (the running mean, the final average, a duration in      *)
(*     seconds) is a reduced fraction [num, den];                          *)
(*   - Date.now() is an integer count of milliseconds;                     *)
(*   - a latitude or longitude is an integer count of 0.001 degree.        *)
(* A value that may be null/undefined is a sequence of length at most 1:   *)
(* None is null, Some(x) is x.                                             *)
(***************************************************************************)
EXTENDS Integers, Sequences, FiniteSets, TLC

(***************************************************************************)
(* Bounds of the model.                                                    *)
(***************************************************************************)
\* Toggle presses (handleRecordPress calls) in one run.
MaxPresses == 3
\* Status updates delivered by the capture in one run.
MaxCallbacks == 1
\* Clock advances in one run.
MaxTicks == 1
\* Calls made on the store in one run of the store specification.
MaxStoreCalls == 3
\* Recordings the marker selection is tried on.
MaxRecordings == 3
\* Raw samples tried on each side of the level at which the conversion floors,
\* in 0.01 dB.
RawSpan == 7

None == << >>
Some(x) == << x >>

(***************************************************************************)
(* Exact quotients.                                                        *)
(***************************************************************************)
RECURSIVE GCD(_, _)
GCD(a, b) == IF b = 0 THEN a ELSE GCD(b, a % b)

\* n / d for n >= 0, d > 0, as a reduced fraction.
Rat(n, d) == LET g == GCD(n, d) IN [num |-> n \div g, den |-> d \div g]

\* JavaScript truthiness of an optional number: undefined, null and 0 are falsy.
Falsy(q) == q = None \/ q[1].num = 0

\* The expression (x || null) of saveRecording.
OrNull(q) == IF Falsy(q) THEN None ELSE q

(***************************************************************************)
(* Inputs.                                                                 *)
(***************************************************************************)
\* The fixes the location provider reports (coords.latitude, coords.longitude),
\* in the order it reports them: the device moves from the first to the second.
Locations == << [latitude |-> 52000, longitude |-> 21000],
                [latitude |-> 53000, longitude |-> 22000] >>

\* status.metering of a status update: absent (None), NaN, or a number.
NaN == [nan |-> TRUE, v |-> 0]
Num(v) == [nan |-> FALSE, v |-> v]
MeterInputs == { None, Some(NaN), Some(Num(-9500)), Some(Num(-4004)) }

\* status.durationMillis reported by getStatusAsync at finalize.
DurationsMillis == { 0, 3200 }

(***************************************************************************)
(* Decibel conversion (src/src/utils/audio.ts).                            *)
(***************************************************************************)
\* The calibration constant C, in 0.1 dB.
CalibrationTenths == 900

\* Math.round(metering * 10) for a sample of h hundredths: the nearest tenth,
\* a tie going up (Math.round rounds half towards +infinity).
RoundToTenths(h) == (h + 5) \div 10

\* Mutant: the level is not floored at 0.
convertMeteringUnclamped(metering) ==
  IF metering = None \/ metering[1].nan THEN None
  ELSE Some(RoundToTenths(metering[1].v) + CalibrationTenths)

\* Mutant: the rounded sample is subtracted from C.
convertMeteringInverted(metering) ==
  IF metering = None \/ metering[1].nan THEN None
  ELSE LET level == CalibrationTenths - RoundToTenths(metering[1].v)
       IN  Some(IF level > 0 THEN level ELSE 0)

\* convertMeteringToDecibels: null for null or NaN, else the rounded sample
\* plus C, floored at 0.  The result is in 0.1 dB.
convertMeteringToDecibels(metering) ==
  IF metering = None \/ metering[1].nan THEN None
  ELSE LET level == RoundToTenths(metering[1].v) + CalibrationTenths
       IN  Some(IF level > 0 THEN level ELSE 0)

(***************************************************************************)
(* Recording store (DatabaseService over the recordings table).            *)
(* The table is the sequence of its rows in rowid order.                   *)
(***************************************************************************)
\* The row INSERT_RECORDING writes: the three metrics pass through (x || null).
NewRow(id, uri, latitude, longitude, timestamp, duration, averageDecibels, peakDecibels) ==
  [ id |-> id, uri |-> uri, latitude |-> latitude, longitude |-> longitude,
    timestamp |-> timestamp,
    duration |-> OrNull(duration),
    averageDecibels |-> OrNull(averageDecibels),
    peakDecibels |-> OrNull(peakDecibels) ]

\* Mutant: the table is dropped and created again.
initDatabaseRecreating(table) == << >>

\* initDatabase: CREATE TABLE IF NOT EXISTS on a database whose recordings
\* table is missing (None) or holds rows (Some(rows)); the result is the rows
\* of the table afterwards.
initDatabase(table) == IF table = None THEN << >> ELSE table[1]

\* ORDER BY timestamp DESC: a stable sort, rows of equal timestamp staying in
\* rowid order.
RECURSIVE InsertByTimestampDesc(_, _)
InsertByTimestampDesc(r, sorted) ==
  IF sorted = << >> THEN << r >>
  ELSE IF Head(sorted).timestamp > r.timestamp
       THEN << Head(sorted) >> \o InsertByTimestampDesc(r, Tail(sorted))
       ELSE << r >> \o sorted

RECURSIVE SelectAllRecordings(_)
SelectAllRecordings(rows) ==
  IF rows = << >> THEN << >>
  ELSE InsertByTimestampDesc(Head(rows), SelectAllRecordings(Tail(rows)))

\* Mutant: the query has no ORDER BY.
getAllRecordingsUnordered(rows, readFails) ==
  [threw |-> FALSE, value |-> IF readFails THEN << >> ELSE rows]

\* Mutant: the read error is not caught.
getAllRecordingsRethrowing(rows, readFails) ==
  [threw |-> readFails, value |-> IF readFails THEN << >> ELSE SelectAllRecordings(rows)]

\* getAllRecordings: the ordered rows, or [] when the underlying read throws.
\* The result records whether the call threw to its caller.
getAllRecordings(rows, readFails) ==
  IF readFails THEN [threw |-> FALSE, value |-> << >>]
  ELSE [threw |-> FALSE, value |-> SelectAllRecordings(rows)]

\* SELECT_RECORDINGS_BY_LOCATION: rows inside the inclusive box, in rowid order.
SelectRecordingsByLocation(rows, latMin, latMax, lonMin, lonMax) ==
  SelectSeq(rows, LAMBDA r : /\ latMin <= r.latitude /\ r.latitude <= latMax
                              /\ lonMin <= r.longitude /\ r.longitude <= lonMax)

\* getRecordingsByLocation: the rows of the box, or [] when the read throws.
getRecordingsByLocation(rows, latitude, longitude, radius, readFails) ==
  IF readFails THEN [threw |-> FALSE, value |-> << >>]
  ELSE [threw |-> FALSE,
        value |-> SelectRecordingsByLocation(rows, latitude - radius, latitude + radius,
                                             longitude - radius, longitude + radius)]

\* Mutant: the row is inserted twice.
saveRecordingTwice(rows, nextId, timestamp, uri, latitude, longitude, duration, averageDecibels, peakDecibels, insertFails) ==
  IF insertFails
  THEN [threw |-> TRUE, rows |-> rows, nextId |-> nextId, insertId |-> 0]
  ELSE [threw |-> FALSE,
        rows |-> rows \o << NewRow(nextId, uri, latitude, longitude, timestamp,
                                   duration, averageDecibels, peakDecibels),
                            NewRow(nextId + 1, uri, latitude, longitude, timestamp,
                                   duration, averageDecibels, peakDecibels) >>,
        nextId |-> nextId + 2, insertId |-> nextId + 1]

\* saveRecording inside withTransactionSync: on success the row is appended,
\* stamped with Date.now(), and its id returned; when the insert throws the
\* transaction rolls back and the error reaches the caller.
saveRecording(rows, nextId, timestamp, uri, latitude, longitude, duration, averageDecibels, peakDecibels, insertFails) ==
  IF insertFails
  THEN [threw |-> TRUE, rows |-> rows, nextId |-> nextId, insertId |-> 0]
  ELSE [threw |-> FALSE,
        rows |-> Append(rows, NewRow(nextId, uri, latitude, longitude, timestamp,
                                     duration, averageDecibels, peakDecibels)),
        nextId |-> nextId + 1, insertId |-> nextId]

(***************************************************************************)
(* State.                                                                  *)
(***************************************************************************)
VARIABLES
  \* useRecording: the hook's argument and React state
  location,                 \* None or Some(l), l a fix of Locations
  isRecording,
  recordingsList,
  liveLevel, liveMin, liveMax,
  recordingDuration,        \* elapsed milliseconds (the displayed seconds x 1000)
  recordingAverageLevelDb,  \* None or Some(fraction)
  \* useRecording: refs
  statusUnsubscribe,        \* None or Some(k): the closure removing listener k
  recordingStartTimeRef,    \* None or Some(ms)
  levelSumRef, levelCountRef, liveMaxRef,
  \* AudioService
  recording,                \* this.recording: None or Some(k)
  statusListeners,          \* this.statusListeners, as the set of listener ids
  \* DatabaseService
  dbRows,                   \* the recordings table, rows in rowid order
  dbNextId,                 \* the next AUTOINCREMENT id
  \* environment
  now,                      \* Date.now()
  tasks,                    \* the startRecording/stopRecording calls made so far
  lastFinished,             \* the latest of them to return, as it returned
  alertCount,               \* Alert.alert calls
  nCallbacks,               \* status updates delivered so far
  \* history of the current session, kept for the properties only
  sessionLocation,          \* the location held when the session was started
  sessionSum, sessionCount, sessionMax,   \* the session's converted samples
  sessionSamples,           \* the levels the listeners were given, in order
  reportedDuration,         \* analysis.duration of the latest finalize
  \* the latest direct call on the store (store specification)
  storeCall, nStoreCalls,
  \* the application's view state (App.tsx, useMapSelection)
  timeRange,                \* { start, end } of the time filter
  selectedRecordings,
  activeDetailRecording,    \* None or Some(recording)
  markerPress,              \* None or Some(arguments of the handleMarkerPress call in effect)
  \* the latest two calls of convertMeteringToDecibels, each with its result
  conversions,
  \* the component using useRecording is mounted
  mounted,
  \* useNotification
  notification,             \* None or Some([ id, type ]), id the showNotification call
  timeoutRef,               \* None or Some(k): the timer of call k
  timers,                   \* the timers set and neither fired nor cleared
  nShown,                   \* showNotification calls so far
  lastDismissal             \* None or Some(how the latest notification was taken down)

liveVars == << liveLevel, liveMin, liveMax, recordingDuration, recordingAverageLevelDb >>
refVars == << statusUnsubscribe, recordingStartTimeRef, levelSumRef, levelCountRef, liveMaxRef >>
audioVars == << recording, statusListeners >>
dbVars == << dbRows, dbNextId >>
sessionVars == << sessionLocation, sessionSum, sessionCount, sessionMax, sessionSamples,
                 reportedDuration >>
storeCallVars == << storeCall, nStoreCalls >>
taskVars == << tasks, lastFinished >>
selectionVars == << selectedRecordings, activeDetailRecording >>
noticeVars == << notification, timeoutRef, timers, nShown, lastDismissal >>
appVars == << timeRange, selectionVars, markerPress, conversions, mounted, noticeVars >>
vars == << location, isRecording, recordingsList, liveVars, refVars, audioVars, dbVars,
           now, taskVars, alertCount, nCallbacks, sessionVars, storeCallVars, appVars >>

Zero == Rat(0, 1)

NoCall == [op |-> "none", args |-> << >>, failed |-> FALSE, threw |-> FALSE, value |-> << >>, before |-> << >>]

(***************************************************************************)
(* Calls in flight.  Every startRecording or stopRecording call that       *)
(* reaches AudioService is a task: its position, the values its closure    *)
(* holds across the await, and the callbacks it has made.                  *)
(***************************************************************************)
NewTask(kind, pc, loc, avg, peak) ==
  [ kind |-> kind, pc |-> pc,
    location |-> loc,            \* the `location` of the render that made the closure
    finalAverageDb |-> avg, finalPeakDb |-> peak,
    threw |-> FALSE,             \* the try block threw
    errorCalls |-> 0,            \* onError calls of this operation
    successCalls |-> 0,          \* onSuccess calls of this operation
    savedId |-> None ]           \* the id saveRecording returned

\* The task once it has returned: its closure is dropped.
Finished(t) ==
  [ t EXCEPT !.pc = "done", !.location = None, !.finalAverageDb = Zero, !.finalPeakDb = 0 ]

\* The slot of a call that has returned, and the record of no call.
NoTask == NewTask("none", "done", None, Zero, 0)

\* Mutant: the error is logged and not reported.
OnErrorSwallowed(t) == t

\* onError(message), counted on the calling operation.
OnError(t) == [ t EXCEPT !.errorCalls = @ + 1 ]

\* onSuccess(message), counted on the calling operation.
OnSuccess(t) == [ t EXCEPT !.successCalls = @ + 1 ]

\* The catch block of startRecording and of stopRecording.
Caught(t) == Finished(OnError([ t EXCEPT !.threw = TRUE ]))

\* Mutant: the location test is missing.
LocationAlwaysAvailable(loc) == TRUE

\* The `if (!location)` test of startRecording.
LocationAvailable(loc) == loc # None

\* Mutant: the closure removes nothing.
UnsubscribedNothing(listeners, unsub) == listeners

\* The unsubscribe closure addStatusListener returned for listener k.
Unsubscribed(listeners, unsub) ==
  IF unsub = None THEN listeners ELSE listeners \ { unsub[1] }

\* A call returns: its slot is cleared and its record kept as the latest.
Return(i, t) ==
  /\ tasks' = [ tasks EXCEPT ![i] = NoTask ]
  /\ lastFinished' = t

Init ==
  /\ location = None
  /\ isRecording = FALSE
  /\ recordingsList = << >>
  /\ liveLevel = None /\ liveMin = None /\ liveMax = None
  /\ recordingDuration = 0
  /\ recordingAverageLevelDb = None
  /\ statusUnsubscribe = None
  /\ recordingStartTimeRef = None
  /\ levelSumRef = 0 /\ levelCountRef = 0 /\ liveMaxRef = 0
  /\ recording = None
  /\ statusListeners = {}
  /\ dbRows = << >>
  /\ dbNextId = 1
  /\ now = 1
  /\ tasks = << >>
  /\ lastFinished = NoTask
  /\ alertCount = 0
  /\ nCallbacks = 0
  /\ sessionLocation = None
  /\ sessionSum = 0 /\ sessionCount = 0 /\ sessionMax = 0
  /\ sessionSamples = << >>
  /\ reportedDuration = Zero
  /\ storeCall = NoCall
  /\ nStoreCalls = 0
  /\ timeRange = [ start |-> 0, end |-> now ]
  /\ selectedRecordings = << >>
  /\ activeDetailRecording = None
  /\ markerPress = None
  /\ conversions = << >>
  /\ mounted = TRUE
  /\ notification = None
  /\ timeoutRef = None
  /\ timers = {}
  /\ nShown = 0
  /\ lastDismissal = None

Min2(a, b) == IF a <= b THEN a ELSE b
Max2(a, b) == IF a >= b THEN a ELSE b

(***************************************************************************)
(* The status listener startRecording subscribes, applied to the hook's    *)
(* live state and refs h at time t.  The updater given to setLiveMax       *)
(* writes liveMaxRef as it computes the new maximum.                       *)
(***************************************************************************)
HookState ==
  [ liveLevel |-> liveLevel, liveMin |-> liveMin, liveMax |-> liveMax,
    recordingDuration |-> recordingDuration,
    recordingAverageLevelDb |-> recordingAverageLevelDb,
    recordingStartTimeRef |-> recordingStartTimeRef,
    levelSumRef |-> levelSumRef, levelCountRef |-> levelCountRef,
    liveMaxRef |-> liveMaxRef ]

StatusListener(h, metering, t) ==
  LET levelDb == convertMeteringToDecibels(metering)
      h1 == IF levelDb # None
            THEN LET v == levelDb[1]
                     newMax == IF h.liveMax = None THEN v ELSE Max2(h.liveMax[1], v)
                     sum == h.levelSumRef + v
                     count == h.levelCountRef + 1
                 IN  [ h EXCEPT !.liveLevel = Some(v),
                                !.liveMin = Some(IF h.liveMin = None THEN v
                                                 ELSE Min2(h.liveMin[1], v)),
                                !.liveMax = Some(newMax),
                                !.liveMaxRef = newMax,
                                !.levelSumRef = sum,
                                !.levelCountRef = count,
                                !.recordingAverageLevelDb = Some(Rat(sum, count)) ]
            ELSE h
  IN  IF h.recordingStartTimeRef # None /\ h.recordingStartTimeRef[1] # 0
      THEN [ h1 EXCEPT !.recordingDuration = t - h.recordingStartTimeRef[1] ]
      ELSE h1

\* statusListeners.forEach(listener => listener(status)) for n listeners.
RECURSIVE Deliver(_, _, _, _)
Deliver(h, metering, t, n) ==
  IF n = 0 THEN h ELSE Deliver(StatusListener(h, metering, t), metering, t, n - 1)

\* AudioService.handleStatusUpdate: a status update of the active capture
\* (the handler is set on a recording as this.recording is).  An update with
\* isRecording false is dropped.
StatusUpdateUpTo(max) ==
  /\ nCallbacks < max
  /\ recording # None
  /\ \E active \in BOOLEAN, metering \in MeterInputs :
       LET n == IF active THEN Cardinality(statusListeners) ELSE 0
           h == Deliver(HookState, metering, now, n)
           levelDb == convertMeteringToDecibels(metering)
           counted == n > 0 /\ levelDb # None
       IN  /\ liveLevel' = h.liveLevel
           /\ liveMin' = h.liveMin
           /\ liveMax' = h.liveMax
           /\ recordingDuration' = h.recordingDuration
           /\ recordingAverageLevelDb' = h.recordingAverageLevelDb
           /\ levelSumRef' = h.levelSumRef
           /\ levelCountRef' = h.levelCountRef
           /\ liveMaxRef' = h.liveMaxRef
           /\ sessionSum' = IF counted THEN sessionSum + levelDb[1] ELSE sessionSum
           /\ sessionCount' = IF counted THEN sessionCount + 1 ELSE sessionCount
           /\ sessionMax' = IF counted THEN Max2(sessionMax, levelDb[1]) ELSE sessionMax
           /\ sessionSamples' = IF counted THEN Append(sessionSamples, levelDb[1])
                                ELSE sessionSamples
  /\ nCallbacks' = nCallbacks + 1
  /\ UNCHANGED << location, isRecording, recordingsList, statusUnsubscribe,
                  recordingStartTimeRef, audioVars, dbVars, now, taskVars, alertCount, sessionLocation, reportedDuration, storeCallVars, appVars >>

HandleStatusUpdate == StatusUpdateUpTo(MaxCallbacks)

(***************************************************************************)
(* startRecording up to its await: the location test, the reset of the     *)
(* refs, and the call of AudioService.startRecording.                      *)
(***************************************************************************)
StartRecording ==
  IF ~LocationAvailable(location)
  THEN /\ alertCount' = alertCount + 1
       /\ UNCHANGED << location, isRecording, recordingsList, liveVars, refVars, audioVars,
                       dbVars, now, taskVars, nCallbacks, sessionVars, storeCallVars, appVars >>
  ELSE /\ recordingStartTimeRef' = Some(now)
       /\ levelSumRef' = 0
       /\ levelCountRef' = 0
       /\ liveMaxRef' = 0
       /\ tasks' = Append(tasks, NewTask("start", "startAwait", location, Zero, 0))
       /\ UNCHANGED lastFinished
       /\ UNCHANGED << location, isRecording, recordingsList, liveVars, statusUnsubscribe,
                       audioVars, dbVars, now, alertCount, nCallbacks,
                       sessionVars, storeCallVars, appVars >>

(***************************************************************************)
(* stopRecording up to its await: unsubscribe, snapshot the aggregates,    *)
(* reset the sum and the count, call AudioService.stopRecording.  With no  *)
(* active recording that call throws before its first await.               *)
(***************************************************************************)
StopRecording ==
  LET count == IF levelCountRef = 0 THEN 1 ELSE levelCountRef
      finalAverageDb == Rat(levelSumRef, count)
      finalPeakDb == liveMaxRef
      t == NewTask("stop", "stopAwait", location, finalAverageDb, finalPeakDb)
  IN  /\ statusListeners' = Unsubscribed(statusListeners, statusUnsubscribe)
      /\ statusUnsubscribe' = None
      /\ recordingStartTimeRef' = None
      /\ levelSumRef' = 0
      /\ levelCountRef' = 0
      /\ tasks' = Append(tasks, IF recording = None THEN NoTask ELSE t)
      /\ lastFinished' = IF recording = None THEN Caught(t) ELSE lastFinished
      /\ UNCHANGED << location, isRecording, recordingsList, liveVars, liveMaxRef, recording,
                      dbVars, now, alertCount, nCallbacks, sessionVars,
                      storeCallVars, appVars >>

\* handleRecordPress: stop when the rendered isRecording is true, else start.
HandleRecordPress ==
  /\ mounted
  /\ Len(tasks) + alertCount < MaxPresses
  /\ IF isRecording THEN StopRecording ELSE StartRecording

(***************************************************************************)
(* startRecording after its await.  AudioService.startRecording either     *)
(* throws (permission denied, or the capture could not be created) or      *)
(* sets this.recording; the hook then clears the live stats, replaces its  *)
(* listener and sets isRecording.                                          *)
(***************************************************************************)
StartResolve(i) ==
  /\ tasks[i].pc = "startAwait"
  /\ \E started \in BOOLEAN :
       IF started
       THEN /\ recording' = Some(i)
            /\ liveLevel' = None
            /\ liveMin' = None
            /\ liveMax' = None
            /\ recordingDuration' = 0
            /\ recordingAverageLevelDb' = None
            /\ statusListeners' = Unsubscribed(statusListeners, statusUnsubscribe) \cup { i }
            /\ statusUnsubscribe' = Some(i)
            /\ isRecording' = TRUE
            /\ Return(i, Finished(tasks[i]))
            /\ sessionLocation' = tasks[i].location
            /\ sessionSum' = 0
            /\ sessionCount' = 0
            /\ sessionMax' = 0
            /\ sessionSamples' = << >>
            /\ UNCHANGED << location, recordingsList, recordingStartTimeRef, levelSumRef,
                            levelCountRef, liveMaxRef, dbVars, now, alertCount, nCallbacks, reportedDuration, storeCallVars, appVars >>
       ELSE /\ Return(i, Caught(tasks[i]))
            /\ UNCHANGED << location, isRecording, recordingsList, liveVars, refVars,
                            audioVars, dbVars, now, alertCount, nCallbacks,
                            sessionVars, storeCallVars, appVars >>

\* Mutant: the location is read when the row is written, not from the closure.
SavedLocationLive(t) == location

\* The location stopRecording writes: the one its closure holds.
SavedLocation(t) == t.location

\* Mutant: the rows read are appended to the list held, not put in its place.
loadRecordingsAppending(rows, readFails) ==
  recordingsList \o getAllRecordings(rows, readFails).value

\* loadRecordings: the list becomes what getAllRecordings returns.
loadRecordings(rows, readFails) == getAllRecordings(rows, readFails).value

(***************************************************************************)
(* stopRecording after its await.  AudioService.stopRecording either       *)
(*   - throws on this.recording, set to null by another stop meanwhile;    *)
(*   - throws from stopAndUnloadAsync, leaving this.recording set;         *)
(*   - clears this.recording and the listeners and throws on a null URI;   *)
(*   - clears them and returns the URI and the analysis.                   *)
(* Only on a return does the hook set isRecording to false, save the row   *)
(* (when its closure holds a location), call onSuccess and reload.         *)
(* The awaits inside AudioService.stopRecording are taken as one step;     *)
(* what expo-av answers (throw or return, the duration) is the             *)
(* environment's choice, as is whether the SQLite insert and read fail.    *)
(***************************************************************************)
StopResolve(i) ==
  /\ tasks[i].pc = "stopAwait"
  /\ \E outcome \in { "unloadThrows", "uriNull", "ok" }, durationMillis \in DurationsMillis,
        insertFails \in BOOLEAN, readFails \in BOOLEAN :
       LET t == tasks[i]
           loc == SavedLocation(t)
           duration == Rat(durationMillis, 1000)
           saved == saveRecording(dbRows, dbNextId, now, recording[1],
                                  loc[1].latitude, loc[1].longitude,
                                  Some(duration), Some(t.finalAverageDb),
                                  Some(Rat(t.finalPeakDb, 1)), insertFails)
       IN  IF recording = None \/ outcome = "unloadThrows"
           THEN /\ Return(i, Caught(t))
                /\ UNCHANGED << location, isRecording, recordingsList, liveVars, refVars,
                                audioVars, dbVars, now, alertCount, nCallbacks,
                                sessionVars, storeCallVars, appVars >>
           ELSE /\ recording' = None
                /\ statusListeners' = {}
                /\ IF outcome = "uriNull"
                   THEN /\ Return(i, Caught(t))
                        /\ UNCHANGED << isRecording, recordingsList, dbVars, reportedDuration >>
                   ELSE /\ isRecording' = FALSE
                        /\ reportedDuration' = duration
                        /\ IF loc = None
                           THEN /\ Return(i, Finished(t))
                                /\ UNCHANGED << recordingsList, dbVars >>
                           ELSE IF saved.threw
                           THEN /\ Return(i, Caught(t))
                                /\ UNCHANGED << recordingsList, dbVars >>
                           ELSE /\ dbRows' = saved.rows
                                /\ dbNextId' = saved.nextId
                                /\ Return(i, Finished(OnSuccess([ t EXCEPT !.savedId = Some(saved.insertId) ])))
                                /\ recordingsList' = loadRecordings(saved.rows, readFails)
                /\ UNCHANGED << location, liveVars, refVars, now, alertCount, nCallbacks, sessionLocation, sessionSum, sessionCount, sessionMax,
                                sessionSamples, storeCallVars, appVars >>

(***************************************************************************)
(* The environment of the hook.                                            *)
(***************************************************************************)
\* initializeApp and recenterMap: setLocation with a position just fetched.
SetLocation(k) ==
  /\ IF k = 1 THEN location = None ELSE location = Some(Locations[k - 1])
  /\ location' = Some(Locations[k])
  /\ UNCHANGED << isRecording, recordingsList, liveVars, refVars, audioVars, dbVars, now,
                  taskVars, alertCount, nCallbacks, sessionVars, storeCallVars, appVars >>

\* loadRecordings as the application calls it at start-up.
LoadRecordings ==
  /\ \E readFails \in BOOLEAN : recordingsList' = loadRecordings(dbRows, readFails)
  /\ UNCHANGED << location, isRecording, liveVars, refVars, audioVars, dbVars, now, taskVars,
                  alertCount, nCallbacks, sessionVars, storeCallVars, appVars >>

\* Time passes.
Tick ==
  /\ now <= MaxTicks
  /\ now' = now + 1
  /\ UNCHANGED << location, isRecording, recordingsList, liveVars, refVars, audioVars,
                  dbVars, taskVars, alertCount, nCallbacks, sessionVars, storeCallVars, appVars >>

Next ==
  \/ HandleRecordPress
  \/ \E i \in 1..Len(tasks) : StartResolve(i)
  \/ \E i \in 1..Len(tasks) : StopResolve(i)
  \/ HandleStatusUpdate
  \/ \E k \in 1..Len(Locations) : SetLocation(k)
  \/ LoadRecordings
  \/ Tick

Spec == Init /\ [][Next]_vars

(***************************************************************************)
(* The store on its own: direct calls of DatabaseService, each with the    *)
(* underlying SQLite call failing or not.  storeCall keeps the latest call *)
(* with what it returned and the table as it was before.                   *)
(***************************************************************************)
\* The default radius of getRecordingsByLocation, in 0.001 degree.
DefaultRadius == 10

\* Arguments of a direct saveRecording call: the metrics absent, zero or positive.
SaveInputs ==
  { [ at |-> 1, duration |-> None, averageDecibels |-> None, peakDecibels |-> None ],
    [ at |-> 1, duration |-> Some(Zero), averageDecibels |-> Some(Zero),
      peakDecibels |-> Some(Zero) ],
    [ at |-> 2, duration |-> Some(Rat(3200, 1000)), averageDecibels |-> Some(Rat(505, 1)),
      peakDecibels |-> Some(Rat(600, 1)) ],
    [ at |-> 1, duration |-> Some(Rat(3200, 1000)), averageDecibels |-> Some(Zero),
      peakDecibels |-> Some(Rat(600, 1)) ] }

\* A direct saveRecording call with arguments among inputs.
StoreSaveOf(inputs) ==
  /\ nStoreCalls < MaxStoreCalls
  /\ \E in \in inputs, insertFails \in BOOLEAN :
       LET saved == saveRecording(dbRows, dbNextId, now, dbNextId,
                                  Locations[in.at].latitude, Locations[in.at].longitude,
                                  in.duration, in.averageDecibels, in.peakDecibels,
                                  insertFails)
       IN  /\ dbRows' = saved.rows
           /\ dbNextId' = saved.nextId
           /\ storeCall' = [ op |-> "saveRecording", args |-> << in >>, failed |-> insertFails,
                             threw |-> saved.threw,
                             value |-> IF saved.threw THEN << >>
                                       ELSE << saved.rows[Len(saved.rows)] >>,
                             before |-> dbRows ]
  /\ nStoreCalls' = nStoreCalls + 1
  /\ UNCHANGED << location, isRecording, recordingsList, liveVars, refVars, audioVars, now,
                  taskVars, alertCount, nCallbacks, sessionVars, appVars >>

StoreSave == StoreSaveOf(SaveInputs)

StoreGetAll ==
  /\ nStoreCalls < MaxStoreCalls
  /\ \E readFails \in BOOLEAN :
       LET got == getAllRecordings(dbRows, readFails)
       IN  storeCall' = [ op |-> "getAllRecordings", args |-> << >>, failed |-> readFails,
                          threw |-> got.threw, value |-> got.value, before |-> dbRows ]
  /\ nStoreCalls' = nStoreCalls + 1
  /\ UNCHANGED << location, isRecording, recordingsList, liveVars, refVars, audioVars, dbVars,
                  now, taskVars, alertCount, nCallbacks, sessionVars, appVars >>

StoreGetByLocation ==
  /\ nStoreCalls < MaxStoreCalls
  /\ \E k \in 1..Len(Locations), readFails \in BOOLEAN :
       LET got == getRecordingsByLocation(dbRows, Locations[k].latitude,
                                          Locations[k].longitude, DefaultRadius, readFails)
       IN  storeCall' = [ op |-> "getRecordingsByLocation", args |-> << >>, failed |-> readFails,
                          threw |-> got.threw, value |-> got.value, before |-> dbRows ]
  /\ nStoreCalls' = nStoreCalls + 1
  /\ UNCHANGED << location, isRecording, recordingsList, liveVars, refVars, audioVars, dbVars,
                  now, taskVars, alertCount, nCallbacks, sessionVars, appVars >>

\* The application is started again: the DatabaseService constructor opens the
\* database file, which holds the table, and runs initDatabase.
StoreRestart ==
  /\ nStoreCalls < MaxStoreCalls
  /\ dbRows' = initDatabase(Some(dbRows))
  /\ storeCall' = [ op |-> "initDatabase", args |-> << >>, failed |-> FALSE, threw |-> FALSE,
                    value |-> << >>, before |-> dbRows ]
  /\ nStoreCalls' = nStoreCalls + 1
  /\ UNCHANGED << location, isRecording, recordingsList, liveVars, refVars, audioVars, dbNextId,
                  now, taskVars, alertCount, nCallbacks, sessionVars, appVars >>

NextStore ==
  \/ StoreSave
  \/ StoreGetAll
  \/ StoreGetByLocation
  \/ StoreRestart
  \/ Tick

SpecStore == Init /\ [][NextStore]_vars

(***************************************************************************)
(* Properties.                                                             *)
(***************************************************************************)
\* A call returns in this step: a pending slot is cleared, or a call that threw
\* before its await was added already cleared.
ReturnsNow ==
  \/ \E i \in 1..Len(tasks) : tasks[i] # NoTask /\ tasks'[i] = NoTask
  \/ Len(tasks') > Len(tasks) /\ tasks'[Len(tasks')] = NoTask

\* A row is written in this step, and the row.
SavesNow == Len(dbRows') = Len(dbRows) + 1
SavedRow == dbRows'[Len(dbRows')]

\* The stopRecording call returning in this step.
StopReturning(i) ==
  /\ i \in 1..Len(tasks)
  /\ tasks[i].kind = "stop"
  /\ tasks[i].pc = "stopAwait"
  /\ tasks'[i] = NoTask

PendingStarts == { i \in 1..Len(tasks) : tasks[i].pc = "startAwait" }
PendingStops == { i \in 1..Len(tasks) : tasks[i].pc = "stopAwait" }

\* A toggle press is handled in this step.
PressNow == Len(tasks') + alertCount' > Len(tasks) + alertCount

\* C1: whenever a stop request fails (AudioService.stopRecording throws or
\* saveRecording throws), the controller ends in Idle: isRecording is false when
\* the failed stopRecording returns.
C1_FailedStopEndsIdle ==
  [][ (ReturnsNow /\ lastFinished'.kind = "stop" /\ lastFinished'.threw)
        => isRecording' = FALSE ]_vars

\* C2: start is exclusive: AudioService.startRecording is never invoked while an
\* earlier invocation has not resolved, and none is pending while Capturing.
C2_StartExclusive ==
  /\ Cardinality(PendingStarts) <= 1
  /\ isRecording => PendingStarts = {}

\* C3: a session started with a location and stopped with no metering callback
\* received stores a row whose averageDecibels and peakDecibels are 0 (present),
\* whose duration is the one the capture service reported and whose latitude and
\* longitude are the session's location.
C3_ZeroMeteringRow ==
  [][ (SavesNow /\ nCallbacks = 0)
        => /\ SavedRow.averageDecibels = Some(Zero)
           /\ SavedRow.peakDecibels = Some(Zero)
           /\ SavedRow.duration = Some(reportedDuration')
           /\ SavedRow.latitude = sessionLocation[1].latitude
           /\ SavedRow.longitude = sessionLocation[1].longitude ]_vars

\* C4 (as claimed): the latitude and longitude written are those of the location
\* held when the session was started.
C4_RowAtSessionStartLocation ==
  [][ SavesNow
        => /\ SavedRow.latitude = sessionLocation[1].latitude
           /\ SavedRow.longitude = sessionLocation[1].longitude ]_vars

\* C4 (amended): the latitude and longitude written are those of the location
\* held when the stop was requested, whatever the location is when the row is
\* written.
C4_RowAtStopRequestLocation ==
  [][ \A i \in 1..Len(tasks) :
        (StopReturning(i) /\ SavesNow)
          => /\ tasks[i].location # None
             /\ SavedRow.latitude = tasks[i].location[1].latitude
             /\ SavedRow.longitude = tasks[i].location[1].longitude ]_vars

\* C4 witness: a row is stored away from the location the session started at.
C4_Witness ==
  /\ Len(dbRows) > 0
  /\ sessionLocation # None
  /\ dbRows[Len(dbRows)].latitude # sessionLocation[1].latitude
  /\ location = Some(Locations[2])

\* C5: for a session with at least one non-null sample, the row's averageDecibels
\* is the mean of the session's converted samples, its peakDecibels their
\* maximum and its duration the one the capture service reported.
C5_RowHoldsSessionAggregates ==
  [][ (SavesNow /\ sessionCount >= 1)
        => /\ SavedRow.averageDecibels = Some(Rat(sessionSum, sessionCount))
           /\ SavedRow.peakDecibels = Some(Rat(sessionMax, 1))
           /\ SavedRow.duration = Some(reportedDuration') ]_vars

\* C6: a start request made with no location does not reach the capture: no
\* AudioService.startRecording call, no listener, the refs and the live stats
\* unchanged, and the controller Idle.
C6_StartWithoutLocation ==
  [][ (PressNow /\ ~isRecording /\ location = None)
        => /\ UNCHANGED << tasks, audioVars, refVars, liveVars >>
           /\ isRecording' = FALSE ]_vars

\* C6 witness: a start was requested with no location, and nothing was started.
C6_Witness ==
  /\ alertCount > 0
  /\ location = None
  /\ ~isRecording
  /\ tasks = << >>

\* C7: once a stop request has begun, no metering callback changes the running
\* aggregates.
C7_NoAggregateChangeDuringStop ==
  [][ (PendingStops # {} /\ nCallbacks' = nCallbacks + 1)
        => UNCHANGED << levelSumRef, levelCountRef, liveMaxRef, liveLevel, liveMin, liveMax,
                        recordingAverageLevelDb, recordingDuration >> ]_vars

\* What a store read can put in the list: the table by timestamp descending,
\* or nothing when the read failed.
ReadResults(rows) == { SelectAllRecordings(rows), << >> }

\* C8 (as claimed): after every successful stop the in-memory list is the store's
\* rows by timestamp descending and contains the row just saved, and the list
\* only ever changes to the result of a store read.
C8_ListHoldsSavedRow ==
  [][ /\ SavesNow => /\ recordingsList' = SelectAllRecordings(dbRows')
                     /\ \E k \in 1..Len(recordingsList') : recordingsList'[k] = SavedRow
      /\ recordingsList' # recordingsList => recordingsList' \in ReadResults(dbRows') ]_vars

\* C8 (amended): after every successful stop the in-memory list is what the
\* getAllRecordings call of that stop returned: the store's rows by timestamp
\* descending, the saved row among them, or the empty list when the read failed;
\* and the list only ever changes to the result of a store read.
C8_ListIsStoreRead ==
  [][ /\ SavesNow => /\ recordingsList' \in ReadResults(dbRows')
                     /\ recordingsList' # << >>
                          => \E k \in 1..Len(recordingsList') : recordingsList'[k] = SavedRow
      /\ recordingsList' # recordingsList => recordingsList' \in ReadResults(dbRows') ]_vars

\* C8 witness: a stop has saved a row and the list is the store's rows.
C8_Witness ==
  /\ lastFinished.kind = "stop"
  /\ lastFinished.successCalls = 1
  /\ Len(dbRows) = 1
  /\ recordingsList = SelectAllRecordings(dbRows)

\* C9: a start or stop that fails calls onError exactly once and never
\* onSuccess; onSuccess is called only by an operation whose row is in the store.
C9_ErrorsReportedOnce ==
  /\ lastFinished.threw => (lastFinished.errorCalls = 1 /\ lastFinished.successCalls = 0)
  /\ lastFinished.successCalls > 0
       => /\ lastFinished.savedId # None
          /\ \E k \in 1..Len(dbRows) : dbRows[k].id = lastFinished.savedId[1]

\* C9 witness: a stop has failed at the store insert, after the capture was finalized.
C9_Witness ==
  /\ lastFinished.kind = "stop"
  /\ lastFinished.threw
  /\ lastFinished.errorCalls = 1
  /\ ~isRecording
  /\ recording = None
  /\ dbRows = << >>

\* C10: reads are fail-soft and writes fail-loud: a failing read returns the empty
\* list without throwing and leaves the table as it was; a failing insert throws
\* and adds no row.
C10_ReadsSoftWritesLoud ==
  /\ (storeCall.op \in { "getAllRecordings", "getRecordingsByLocation" } /\ storeCall.failed)
       => /\ ~storeCall.threw
          /\ storeCall.value = << >>
          /\ dbRows = storeCall.before
  /\ (storeCall.op = "saveRecording" /\ storeCall.failed)
       => /\ storeCall.threw
          /\ dbRows = storeCall.before

\* C10 witness: a read has failed on a table that holds a row.
C10_Witness ==
  /\ storeCall.op = "getAllRecordings"
  /\ storeCall.failed
  /\ Len(dbRows) > 0

(***************************************************************************)
(* Properties of the store's calls.                                        *)
(***************************************************************************)
\* The store call made in this step is a call of op.
StoreCallNow(op) == nStoreCalls' = nStoreCalls + 1 /\ storeCall'.op = op

\* getAllRecordings is called right after a saveRecording call that returned,
\* and its read does not fail (a failing read is the case of C10).
ReadAfterSave ==
  /\ storeCall.op = "saveRecording"
  /\ ~storeCall.threw
  /\ StoreCallNow("getAllRecordings")
  /\ ~storeCall'.failed

\* The fix passed to the latest saveRecording call.
SavedAt == Locations[storeCall.args[1].at]

TimestampDescending(list) ==
  \A i \in 1..(Len(list) - 1) : list[i].timestamp >= list[i + 1].timestamp

\* Row r is the row the latest saveRecording call inserted, at the place passed.
IsInsertedRow(r) ==
  /\ r.id = storeCall.value[1].id
  /\ r.latitude = SavedAt.latitude
  /\ r.longitude = SavedAt.longitude

\* C11 (as claimed): for any prior store contents, right after saveRecording
\* returns id k, getAllRecordings returns a sequence whose first element has id k
\* and the inserted latitude and longitude, and which is ordered by timestamp
\* descending.
C11_SavedRowFirst ==
  [][ ReadAfterSave
        => /\ storeCall'.value # << >>
           /\ IsInsertedRow(storeCall'.value[1])
           /\ TimestampDescending(storeCall'.value) ]_vars

\* C11 (amended): right after saveRecording returns id k, getAllRecordings
\* returns a sequence ordered by timestamp descending that holds exactly one row
\* of id k, with the inserted latitude and longitude; that row is the first
\* element when every row the store held before has a smaller timestamp.
C11_SavedRowRead ==
  [][ ReadAfterSave
        => LET got == storeCall'.value
               prior == storeCall.before
           IN  /\ TimestampDescending(got)
               /\ Cardinality({ j \in 1..Len(got) : IsInsertedRow(got[j]) }) = 1
               /\ Cardinality({ j \in 1..Len(got) : got[j].id = storeCall.value[1].id }) = 1
               /\ (\A j \in 1..Len(prior) : prior[j].timestamp < storeCall.value[1].timestamp)
                    => IsInsertedRow(got[1]) ]_vars

\* C11 witness: two rows were saved at different times and then read: the later
\* one comes first.
C11_Witness ==
  /\ nStoreCalls = 3
  /\ storeCall.op = "getAllRecordings"
  /\ ~storeCall.failed
  /\ Len(storeCall.value) = 2
  /\ storeCall.value[1].id = 2
  /\ storeCall.value[1].timestamp > storeCall.value[2].timestamp

\* C12: saveRecording followed by getAllRecordings round-trips the optional
\* metrics: the row read back has the duration, averageDecibels and peakDecibels
\* that were passed, absent only where none was passed (so 0 stays 0).
C12_MetricsRoundTrip ==
  [][ ReadAfterSave
        => \E j \in 1..Len(storeCall'.value) :
             LET r == storeCall'.value[j]
                 in == storeCall.args[1]
             IN  /\ r.id = storeCall.value[1].id
                 /\ r.duration = in.duration
                 /\ r.averageDecibels = in.averageDecibels
                 /\ r.peakDecibels = in.peakDecibels ]_vars

ClampEdge == -(10 * CalibrationTenths)

\* Raw samples, in 0.01 dB: those around the floor, silence, full scale, a
\* sample on a rounding tie and its neighbour.
RawSamples == ((ClampEdge - RawSpan)..(ClampEdge + RawSpan)) \cup { -16000, -4005, -4004, 0 }

ConvertInputs == { None, Some(NaN) } \cup { Some(Num(h)) : h \in RawSamples }

Convert ==
  /\ \E metering \in ConvertInputs :
       LET call == [ metering |-> metering, levelDb |-> convertMeteringToDecibels(metering) ]
       IN  conversions' = IF conversions = << >> THEN << call >>
                          ELSE << conversions[Len(conversions)], call >>
  /\ UNCHANGED << location, isRecording, recordingsList, liveVars, refVars, audioVars, dbVars,
                  now, taskVars, alertCount, nCallbacks, sessionVars, storeCallVars,
                  timeRange, selectionVars, markerPress, mounted, noticeVars >>

NextConvert == Convert

SpecConvert == Init /\ [][NextConvert]_vars

Abs(x) == IF x >= 0 THEN x ELSE -x

\* The tenths next to h hundredths.
TenthsAround(h) == ((h \div 10) - 1)..((h \div 10) + 1)

\* Rounding to one decimal, by its meaning: the tenth nearest to h hundredths,
\* of two equally near the upper one.
NearestTenth(h) ==
  CHOOSE t \in TenthsAround(h) :
    \A u \in TenthsAround(h) :
      \/ Abs(10 * t - h) < Abs(10 * u - h)
      \/ (Abs(10 * t - h) = Abs(10 * u - h) /\ t >= u)

\* The reference: null for null or NaN, else max(0, round-to-one-decimal + 90).
ReferenceDecibels(metering) ==
  IF metering = None THEN None
  ELSE IF metering[1].nan THEN None
  ELSE Some(Max2(0, NearestTenth(metering[1].v) + 900))

\* C14: convertMeteringToDecibels agrees with the reference for every input: null
\* for null or NaN, otherwise max(0, round-to-one-decimal(raw) + 90), so a
\* non-null result is never negative.
C14_AgreesWithReference ==
  \A i \in 1..Len(conversions) :
    LET c == conversions[i]
    IN  /\ c.levelDb = ReferenceDecibels(c.metering)
        /\ c.levelDb = None <=> (c.metering = None \/ c.metering[1].nan)
        /\ c.levelDb # None => c.levelDb[1] >= 0

\* C14 witness: NaN was converted to null, then a sample below the floor to 0.
C14_Witness ==
  /\ Len(conversions) = 2
  /\ conversions[1].metering = Some(NaN)
  /\ conversions[1].levelDb = None
  /\ conversions[2].metering = Some(Num(ClampEdge - RawSpan))
  /\ conversions[2].levelDb = Some(0)

\* Both of the latest two calls had a number for input.
TwoNumbersConverted ==
  /\ Len(conversions) = 2
  /\ \A i \in 1..2 : conversions[i].metering # None /\ ~conversions[i].metering[1].nan

\* C15: convertMeteringToDecibels is monotonically non-decreasing: for raw inputs
\* a <= b the result for a is at most the result for b.
C15_Monotone ==
  (TwoNumbersConverted /\ conversions[1].metering[1].v <= conversions[2].metering[1].v)
    => /\ conversions[1].levelDb # None
       /\ conversions[2].levelDb # None
       /\ conversions[1].levelDb[1] <= conversions[2].levelDb[1]

\* C15 witness: a smaller and a larger sample above the floor were converted,
\* to a smaller and a larger level.
C15_Witness ==
  /\ TwoNumbersConverted
  /\ conversions[1].metering[1].v < conversions[2].metering[1].v
  /\ 0 < conversions[1].levelDb[1]
  /\ conversions[1].levelDb[1] < conversions[2].levelDb[1]

(***************************************************************************)
(* The time filter of the application (App.tsx): recordings are saved to   *)
(* the store and loaded into recordingsList, the timeline sets timeRange,  *)
(* and filteredRecordings is computed from the two.                        *)
(***************************************************************************)
\* r.timestamp >= timeRange.start && r.timestamp <= timeRange.end
InTimeRange(r, range) == r.timestamp >= range.start /\ r.timestamp <= range.end

RECURSIVE Reversed(_)
Reversed(list) == IF list = << >> THEN << >> ELSE Append(Reversed(Tail(list)), Head(list))

\* Mutant: no sentinel, the window is applied whatever its start.
filteredRecordingsNoSentinel(list, range) ==
  SelectSeq(list, LAMBDA r : InTimeRange(r, range))

\* Mutant: the end of the window is exclusive.
filteredRecordingsExclusive(list, range) ==
  IF range.start = 0 THEN list
  ELSE SelectSeq(list, LAMBDA r : r.timestamp >= range.start /\ r.timestamp < range.end)

\* Mutant: the retained recordings come out oldest first.
filteredRecordingsReversed(list, range) ==
  IF range.start = 0 THEN list
  ELSE Reversed(SelectSeq(list, LAMBDA r : InTimeRange(r, range)))

\* filteredRecordings (useMemo over recordingsList and timeRange): the list
\* itself when the start is 0, else the recordings inside the window.
filteredRecordings(list, range) ==
  IF range.start = 0 THEN list
  ELSE SelectSeq(list, LAMBDA r : InTimeRange(r, range))

\* The instants a window can start or end at: from 0 to past the latest clock value.
WindowTimes == 0..(MaxTicks + 2)

\* handleTimeChange(startTime, endTime)
HandleTimeChange ==
  /\ \E startTime \in WindowTimes, endTime \in WindowTimes :
       timeRange' = [ start |-> startTime, end |-> endTime ]
  /\ UNCHANGED << location, isRecording, recordingsList, liveVars, refVars, audioVars, dbVars,
                  now, taskVars, alertCount, nCallbacks, sessionVars, storeCallVars,
                  selectionVars, markerPress, conversions, mounted, noticeVars >>

\* The recordings the filter is tried on are saved with all their metrics.
FilterSaveInputs == { in \in SaveInputs : ~Falsy(in.duration) /\ ~Falsy(in.averageDecibels) }

FilterSave == StoreSaveOf(FilterSaveInputs)

NextFilter ==
  \/ FilterSave
  \/ Tick
  \/ LoadRecordings
  \/ HandleTimeChange

SpecFilter == Init /\ [][NextFilter]_vars

\* What the map is given in the current state.
Filtered == filteredRecordings(recordingsList, timeRange)

Contains(list, r) == \E k \in 1..Len(list) : list[k] = r

\* a is b with some elements left out.
RECURSIVE IsSubsequence(_, _)
IsSubsequence(a, b) ==
  IF a = << >> THEN TRUE
  ELSE IF b = << >> THEN FALSE
  ELSE IF Head(a) = Head(b) THEN IsSubsequence(Tail(a), Tail(b))
  ELSE IsSubsequence(a, Tail(b))

\* C16: when the window's start is the sentinel 0, the filtered recordings are
\* exactly the full list (same elements, same order), whatever the end is.
C16_SentinelIsIdentity ==
  timeRange.start = 0 => Filtered = recordingsList

\* C16 witness: the start is 0 and a loaded recording is later than the end.
C16_Witness ==
  /\ timeRange.start = 0
  /\ Len(recordingsList) >= 2
  /\ \E k \in 1..Len(recordingsList) : recordingsList[k].timestamp > timeRange.end

\* C17 (as claimed): for every list, recording r of it and window (s, e), the
\* filtered list contains r if and only if s <= r.timestamp <= e.
C17_InWindowIff ==
  \A k \in 1..Len(recordingsList) :
    Contains(Filtered, recordingsList[k])
      <=> (timeRange.start <= recordingsList[k].timestamp
           /\ recordingsList[k].timestamp <= timeRange.end)

\* C17 (amended): for every window (s, e) with s # 0, the filtered list contains
\* a recording r of the list if and only if s <= r.timestamp <= e, both bounds
\* inclusive; with s = 0 it contains every recording of the list, whatever e is.
C17_InWindowIffStartSet ==
  \A k \in 1..Len(recordingsList) :
    IF timeRange.start = 0
    THEN Contains(Filtered, recordingsList[k])
    ELSE Contains(Filtered, recordingsList[k])
           <=> (timeRange.start <= recordingsList[k].timestamp
                /\ recordingsList[k].timestamp <= timeRange.end)

\* C17 witness: a window that starts and ends at the timestamp of one loaded
\* recording keeps it and leaves an earlier one out.
C17_Witness ==
  /\ timeRange.start # 0
  /\ timeRange.start = timeRange.end
  /\ Len(recordingsList) >= 2
  /\ Len(Filtered) >= 1
  /\ Filtered[1].timestamp = timeRange.end
  /\ \E k \in 1..Len(recordingsList) : recordingsList[k].timestamp < timeRange.start

\* C18: the time filter is order-preserving: for every window the filtered list
\* is a subsequence of the list (nothing added or duplicated, the retained
\* elements in their order), and setting the window does not modify the list.
C18_FilterIsSubsequence ==
  [][ /\ IsSubsequence(filteredRecordings(recordingsList', timeRange'), recordingsList')
      /\ timeRange' # timeRange => recordingsList' = recordingsList ]_vars

\* C18 witness: of three loaded recordings the window keeps two.
C18_Witness ==
  /\ timeRange.start # 0
  /\ Len(recordingsList) = 3
  /\ Len(Filtered) = 2
  /\ Filtered[1].id # Filtered[2].id

(***************************************************************************)
(* Marker selection (useMapSelection; App.tsx has the same handler over    *)
(* its own state).  Coordinates and latitudeDelta are in 0.001 degree,     *)
(* distances in metres.                                                    *)
(***************************************************************************)
CLICK_OVERLAP_FACTOR == 3500

\* The places of the recordings on the map: the first fix, a place 0.001 degree
\* north of it, and the second fix.
MapFixes ==
  << Locations[1],
     [ latitude |-> Locations[1].latitude + 1, longitude |-> Locations[1].longitude ],
     Locations[2] >>

\* calculateDistance between the two fixes of Locations, to the nearest metre.
DistanceBetweenFixes == 130175
\* calculateDistance between the first fix and the place north of it.
DistanceToNearFix == 111
\* calculateDistance between the place north of the first fix and the second fix.
DistanceNearToFar == 130080

\* The place of MapFixes at the given coordinates.
FixAt(lat, lon) ==
  CHOOSE k \in 1..Len(MapFixes) : MapFixes[k].latitude = lat /\ MapFixes[k].longitude = lon

\* calculateDistance (haversine, R = 6371e3), on the places of the model: a = 0,
\* hence 0, from a point to itself, and the distances above between two places.
calculateDistance(lat1, lon1, lat2, lon2) ==
  IF lat1 = lat2 /\ lon1 = lon2 THEN 0
  ELSE LET pair == { FixAt(lat1, lon1), FixAt(lat2, lon2) }
       IN  IF pair = { 1, 2 } THEN DistanceToNearFix
           ELSE IF pair = { 2, 3 } THEN DistanceNearToFar
           ELSE DistanceBetweenFixes

\* dist <= visualRadius, where visualRadius = CLICK_OVERLAP_FACTOR *
\* region.latitudeDelta: both sides in 0.001 m.
WithinVisualRadius(tapped, r, region) ==
  1000 * calculateDistance(tapped.latitude, tapped.longitude, r.latitude, r.longitude)
    <= CLICK_OVERLAP_FACTOR * region.latitudeDelta

\* nearbyRecordings.sort((a, b) => b.timestamp - a.timestamp): a stable sort.
SortByTimestampDesc(list) == SelectAllRecordings(list)

\* Mutant: the first of the selection is put in detail whenever there is one.
SelectionFirstInDetail(selected) ==
  [ selectedRecordings |-> selected,
    activeDetailRecording |-> IF Len(selected) >= 1 THEN Some(selected[1]) ELSE None ]

\* The state the handler sets.
Selection(selected) ==
  [ selectedRecordings |-> selected,
    activeDetailRecording |-> IF Len(selected) = 1 THEN Some(selected[1]) ELSE None ]

\* Mutant: the comparison with the radius is strict.
handleMarkerPressStrict(tapped, reg, candidates) ==
  IF reg = None THEN Selection(<< tapped >>)
  ELSE Selection(SortByTimestampDesc(SelectSeq(candidates, LAMBDA r :
         1000 * calculateDistance(tapped.latitude, tapped.longitude, r.latitude, r.longitude)
           < CLICK_OVERLAP_FACTOR * reg[1].latitudeDelta)))

\* Mutant: with no region the candidates are all selected.
handleMarkerPressNoFallback(tapped, reg, candidates) ==
  IF reg = None THEN Selection(SortByTimestampDesc(candidates))
  ELSE Selection(SortByTimestampDesc(
         SelectSeq(candidates, LAMBDA r : WithinVisualRadius(tapped, r, reg[1]))))

\* Mutant: the distance is taken from the centre of the region.
handleMarkerPressFromCentre(tapped, reg, candidates) ==
  IF reg = None THEN Selection(<< tapped >>)
  ELSE Selection(SortByTimestampDesc(
         SelectSeq(candidates, LAMBDA r : WithinVisualRadius(reg[1], r, reg[1]))))

\* Mutant: the nearby recordings are not sorted.
handleMarkerPressUnsorted(tapped, reg, candidates) ==
  IF reg = None THEN Selection(<< tapped >>)
  ELSE Selection(SelectSeq(candidates, LAMBDA r : WithinVisualRadius(tapped, r, reg[1])))

\* handleMarkerPress(recording, region, filteredRecordings), the recording being
\* the tapped one: with no region the
\* tapped recording alone, in detail; else the candidates within the radius,
\* most recent first, in detail when there is exactly one.
handleMarkerPress(tapped, reg, candidates) ==
  IF reg = None THEN Selection(<< tapped >>)
  ELSE Selection(SortByTimestampDesc(
         SelectSeq(candidates, LAMBDA r : WithinVisualRadius(tapped, r, reg[1]))))

\* The regions handed to the handler: none (the map is not laid out), or one
\* centred on the first fix with no span, the span the application starts with,
\* a span that takes in the place north of it, or a span that takes in all.
RegionInputs ==
  { None } \cup
  { Some([ latitude |-> Locations[1].latitude, longitude |-> Locations[1].longitude,
           latitudeDelta |-> d, longitudeDelta |-> d ]) : d \in { 0, 10, 40, 40000 } }

\* The recordings on the map: rows as the store returns them, recording k saved
\* at the places of MapFixes in turn, two at each timestamp.
RecordingOnMap(k) ==
  LET at == MapFixes[((k - 1) % Len(MapFixes)) + 1]
  IN  NewRow(k, k, at.latitude, at.longitude, ((k - 1) \div 2) + 1,
             Some(Rat(3200, 1000)), Some(Rat(505, 1)), Some(Rat(600, 1)))

RecordingsOnMap == { RecordingOnMap(k) : k \in 1..MaxRecordings }

\* The candidate lists: any of the recordings, in any order.
CandidateLists ==
  { c \in UNION { [1..n -> RecordingsOnMap] : n \in 0..MaxRecordings } :
      \A i \in 1..Len(c), j \in 1..Len(c) : i # j => c[i] # c[j] }

HandleMarkerPress ==
  /\ \E tapped \in RecordingsOnMap, reg \in RegionInputs, candidates \in CandidateLists :
       LET set == handleMarkerPress(tapped, reg, candidates)
       IN  /\ selectedRecordings' = set.selectedRecordings
           /\ activeDetailRecording' = set.activeDetailRecording
           /\ markerPress' = Some([ recording |-> tapped, region |-> reg,
                                    filteredRecordings |-> candidates ])
  /\ UNCHANGED << location, isRecording, recordingsList, liveVars, refVars, audioVars, dbVars,
                  now, taskVars, alertCount, nCallbacks, sessionVars, storeCallVars,
                  timeRange, conversions, mounted, noticeVars >>

closeSelection ==
  /\ markerPress # None
  /\ selectedRecordings' = << >>
  /\ activeDetailRecording' = None
  /\ markerPress' = None
  /\ UNCHANGED << location, isRecording, recordingsList, liveVars, refVars, audioVars, dbVars,
                  now, taskVars, alertCount, nCallbacks, sessionVars, storeCallVars,
                  timeRange, conversions, mounted, noticeVars >>

NextSelection ==
  \/ HandleMarkerPress
  \/ closeSelection

SpecSelection == Init /\ [][NextSelection]_vars

\* The arguments of the handleMarkerPress call in effect.
Pressed == markerPress[1]

\* C19 (as claimed): for every tapped recording, region and candidate list
\* passed to handleMarkerPress, selectedRecordings contains the tapped recording.
C19_SelectionHoldsTapped ==
  markerPress # None => Contains(selectedRecordings, Pressed.recording)

\* C19 (amended): selectedRecordings contains the tapped recording whenever no
\* region is passed, or the tapped recording is among the candidates and the
\* region's latitudeDelta is not negative.
C19_SelectionHoldsTappedCandidate ==
  (/\ markerPress # None
   /\ \/ Pressed.region = None
      \/ /\ Contains(Pressed.filteredRecordings, Pressed.recording)
         /\ Pressed.region[1].latitudeDelta >= 0)
    => Contains(selectedRecordings, Pressed.recording)

\* C19 witness: a recording was tapped on a region of no span, among candidates
\* that hold it and a recording at the other fix: it alone is selected.
C19_Witness ==
  /\ markerPress # None
  /\ Pressed.region # None
  /\ Pressed.region[1].latitudeDelta = 0
  /\ Len(Pressed.filteredRecordings) >= 2
  /\ Contains(Pressed.filteredRecordings, Pressed.recording)
  /\ selectedRecordings = << Pressed.recording >>

\* C20: after any handleMarkerPress, selectedRecordings is sorted by timestamp
\* descending, whatever the order of the candidate list.
C20_SelectionSorted ==
  markerPress # None => TimestampDescending(selectedRecordings)

\* C20 witness: the candidates were passed oldest first, both were within the
\* radius, and the selection has the later one first.
C20_Witness ==
  /\ markerPress # None
  /\ Pressed.region # None
  /\ Len(Pressed.filteredRecordings) >= 2
  /\ Pressed.filteredRecordings[1].timestamp < Pressed.filteredRecordings[2].timestamp
  /\ Len(selectedRecordings) >= 2
  /\ selectedRecordings[1] = Pressed.filteredRecordings[2]
  /\ selectedRecordings[2] = Pressed.filteredRecordings[1]

\* The candidates passed whose distance to the tapped recording is at most
\* 3500 x latitudeDelta metres (both sides in 0.001 m).
Matched ==
  { r \in { Pressed.filteredRecordings[k] : k \in 1..Len(Pressed.filteredRecordings) } :
      1000 * calculateDistance(Pressed.recording.latitude, Pressed.recording.longitude,
                               r.latitude, r.longitude)
        <= 3500 * Pressed.region[1].latitudeDelta }

\* SelectionCard: the pick-list is shown.
showList == Len(selectedRecordings) > 1 /\ activeDetailRecording = None

\* C21: after handleMarkerPress with a region, a single recording is in detail
\* focus if and only if exactly one recording matched, and it is that one; when
\* more than one matched, activeDetailRecording is null and the pick-list shows.
C21_DetailIffOneMatch ==
  (markerPress # None /\ Pressed.region # None)
    => /\ activeDetailRecording # None <=> Cardinality(Matched) = 1
       /\ activeDetailRecording # None => { activeDetailRecording[1] } = Matched
       /\ Cardinality(Matched) > 1 => (activeDetailRecording = None /\ showList)

\* C21 witness: two recordings matched and none is in detail.
C21_Witness ==
  /\ markerPress # None
  /\ Pressed.region # None
  /\ Cardinality(Matched) = 2
  /\ Len(selectedRecordings) = 2
  /\ activeDetailRecording = None

\* C22: handleMarkerPress with no region makes selectedRecordings the one-element
\* list of the tapped recording and puts it in detail focus, whatever the
\* candidate list.
C22_NoRegionSelectsTapped ==
  (markerPress # None /\ Pressed.region = None)
    => /\ selectedRecordings = << Pressed.recording >>
       /\ activeDetailRecording = Some(Pressed.recording)

\* C22 witness: with no region, a recording was tapped that is not among the two
\* candidates passed.
C22_Witness ==
  /\ markerPress # None
  /\ Pressed.region = None
  /\ Len(Pressed.filteredRecordings) = 2
  /\ ~Contains(Pressed.filteredRecordings, Pressed.recording)
  /\ selectedRecordings = << Pressed.recording >>

\* C26: with a region, the recordings selected are exactly the candidates whose
\* distance to the tapped recording is at most 3500 x region.latitudeDelta
\* metres: none within the radius is left out, none beyond it is taken.
C26_SelectionIsWithinRadius ==
  (markerPress # None /\ Pressed.region # None)
    => /\ { selectedRecordings[k] : k \in 1..Len(selectedRecordings) } = Matched
       /\ Len(selectedRecordings) = Cardinality(Matched)

\* C26 witness: of three candidates the one 111 m from the tapped recording is
\* selected with it under a radius of 140 m, and the one 130 km away is not.
C26_Witness ==
  /\ markerPress # None
  /\ Pressed.region # None
  /\ Pressed.region[1].latitudeDelta = 40
  /\ Len(Pressed.filteredRecordings) = 3
  /\ Len(selectedRecordings) = 2
  /\ Contains(selectedRecordings, Pressed.recording)

------------------------------------------------------------------------------
\* The map.

\* MapComponent: the recordings turned into points and loaded into the
\* clustering index, those whose averageDecibels is neither undefined nor null.
superclusterPoints(recordings) ==
  SelectSeq(recordings, LAMBDA r : r.averageDecibels # None)

\* C23: every recording of the time-filtered list given to the map is among the
\* points loaded into the clustering index, recordings whose averageDecibels is
\* absent included.
C23_EveryRecordingOnMap ==
  \A k \in 1..Len(Filtered) : Contains(superclusterPoints(Filtered), Filtered[k])

------------------------------------------------------------------------------
(***************************************************************************)
(* The hook over a session of several status updates, and its unmount.     *)
(***************************************************************************)
\* Status updates delivered in this specification.
MaxSamples == 2

HandleStatusUpdates == StatusUpdateUpTo(MaxSamples)

\* The cleanup of the hook's effect: statusUnsubscribe.current?.() and no more;
\* the ref keeps the closure, and the calls in flight go on.
Unmount ==
  /\ mounted
  /\ mounted' = FALSE
  /\ statusListeners' = Unsubscribed(statusListeners, statusUnsubscribe)
  /\ UNCHANGED << location, isRecording, recordingsList, liveVars, refVars, recording, dbVars,
                  now, taskVars, alertCount, nCallbacks, sessionVars, storeCallVars,
                  timeRange, selectionVars, markerPress, conversions, noticeVars >>

NextSession ==
  \/ HandleRecordPress
  \/ \E i \in 1..Len(tasks) : StartResolve(i)
  \/ \E i \in 1..Len(tasks) : StopResolve(i)
  \/ HandleStatusUpdates
  \/ \E k \in 1..Len(Locations) : SetLocation(k)
  \/ Unmount

SpecSession == Init /\ [][NextSession]_vars

\* The hook is Idle and the latest call to return is a stop that completed.
IdleAfterCompletedStop ==
  /\ ~isRecording
  /\ lastFinished.kind = "stop"
  /\ ~lastFinished.threw

RECURSIVE SumOf(_)
SumOf(levels) == IF levels = << >> THEN 0 ELSE Head(levels) + SumOf(Tail(levels))
MinOf(levels) == CHOOSE v \in { levels[k] : k \in 1..Len(levels) } :
                   \A k \in 1..Len(levels) : v <= levels[k]
MaxOf(levels) == CHOOSE v \in { levels[k] : k \in 1..Len(levels) } :
                   \A k \in 1..Len(levels) : v >= levels[k]

\* The hook is Capturing: it shows a recording in progress and no stop is under way.
Capturing == isRecording /\ recording # None /\ PendingStops = {}

\* A status update is delivered in this step.
CallbackNow == nCallbacks' = nCallbacks + 1

\* C24: while Capturing, the live stats are the aggregates of the non-null
\* converted samples received so far in this session (liveMin their minimum,
\* liveMax their maximum, the running mean their sum over their count), and a
\* callback whose converted level is null changes none of level, min, max, sum,
\* count and mean.
C24_LiveStatsAreSessionAggregates ==
  /\ [] ( (Capturing /\ sessionSamples # << >>)
            => /\ liveLevel = Some(sessionSamples[Len(sessionSamples)])
               /\ liveMin = Some(MinOf(sessionSamples))
               /\ liveMax = Some(MaxOf(sessionSamples))
               /\ recordingAverageLevelDb
                    = Some(Rat(SumOf(sessionSamples), Len(sessionSamples))) )
  /\ [][ (Capturing /\ CallbackNow /\ sessionSamples' = sessionSamples)
           => UNCHANGED << liveLevel, liveMin, liveMax, levelSumRef, levelCountRef,
                           recordingAverageLevelDb >> ]_vars

\* p <= q for fractions with positive denominators.
RatLeq(p, q) == p.num * q.den <= q.num * p.den

\* C29: whenever a sample has been counted in the current session, liveMin <=
\* running mean <= liveMax; at the stop request the final average is at most the
\* final peak; every saved recording with both metrics has averageDecibels <=
\* peakDecibels.
C29_AverageWithinMinAndMax ==
  /\ (levelCountRef >= 1 /\ recordingAverageLevelDb # None /\ liveMin # None /\ liveMax # None)
       => /\ RatLeq(Rat(liveMin[1], 1), recordingAverageLevelDb[1])
          /\ RatLeq(recordingAverageLevelDb[1], Rat(liveMax[1], 1))
  /\ \A i \in PendingStops : RatLeq(tasks[i].finalAverageDb, Rat(tasks[i].finalPeakDb, 1))
  /\ \A k \in 1..Len(dbRows) :
       (dbRows[k].averageDecibels # None /\ dbRows[k].peakDecibels # None)
         => RatLeq(dbRows[k].averageDecibels[1], dbRows[k].peakDecibels[1])

\* A startRecording call returns in this step without having thrown.
StartSucceedsNow ==
  \E i \in 1..Len(tasks) :
    /\ tasks[i].pc = "startAwait"
    /\ tasks'[i] = NoTask
    /\ ~lastFinished'.threw

\* C25: when a start succeeds, before the first callback of the new session, the
\* running aggregates are reset: sum 0, count 0, the maximum kept for the peak 0,
\* live level, min, max and mean unset, duration 0; nothing of an earlier session
\* is carried into the new one.
C25_AggregatesResetOnStart ==
  [][ StartSucceedsNow
        => /\ levelSumRef' = 0
           /\ levelCountRef' = 0
           /\ liveMaxRef' = 0
           /\ liveLevel' = None
           /\ liveMin' = None
           /\ liveMax' = None
           /\ recordingAverageLevelDb' = None
           /\ recordingDuration' = 0 ]_vars

------------------------------------------------------------------------------
(***************************************************************************)
(* useNotification.  A timer is named by the showNotification call that    *)
(* set it and carries the milliseconds left before it is due; `timers`     *)
(* holds those set and neither fired nor cleared.                          *)
(***************************************************************************)
\* showNotification calls in this specification.
MaxNotifications == 4

NOTIFICATION_DURATION == 3500

\* The notifications the application shows: the onError and onSuccess messages
\* of useRecording.
NotificationInputs ==
  { [ type |-> "error", message |-> "Failed to start recording" ],
    [ type |-> "success", message |-> "Recording saved" ],
    [ type |-> "error", message |-> "Failed to save recording" ] }

\* Mutant: the timer held by the ref is left pending.
clearTimeoutNothing(ref, pending) == pending

\* if (timeoutRef.current) clearTimeout(timeoutRef.current): clearing a timer
\* that has fired does nothing.
clearTimeout(ref, pending) ==
  IF ref = None THEN pending ELSE { t \in pending : t.id # ref[1] }

\* setTimeout(callback, NOTIFICATION_DURATION) by call k.
setTimeout(k) == [ id |-> k, left |-> NOTIFICATION_DURATION ]

\* How the notification on display was taken down.
Dismissal(by, timer) ==
  IF notification = None THEN lastDismissal
  ELSE Some([ shown |-> notification[1].id, by |-> by, timer |-> timer ])

\* showNotification(type, message)
ShowNotification ==
  /\ nShown < MaxNotifications
  /\ \E in \in NotificationInputs :
       notification' = Some([ id |-> nShown + 1, type |-> in.type, message |-> in.message ])
  /\ timers' = clearTimeout(timeoutRef, timers) \cup { setTimeout(nShown + 1) }
  /\ timeoutRef' = Some(nShown + 1)
  /\ nShown' = nShown + 1
  /\ UNCHANGED lastDismissal
  /\ UNCHANGED << location, isRecording, recordingsList, liveVars, refVars, audioVars, dbVars,
                  now, taskVars, alertCount, nCallbacks, sessionVars, storeCallVars,
                  timeRange, selectionVars, markerPress, conversions, mounted >>

\* Time passes for the timers that are not yet due: half the duration, or all of it.
Elapse ==
  /\ \E t \in timers : t.left > 0
  /\ \E d \in { NOTIFICATION_DURATION \div 2, NOTIFICATION_DURATION } :
       timers' = { [ t EXCEPT !.left = IF t.left > d THEN t.left - d ELSE 0 ] : t \in timers }
  /\ UNCHANGED << notification, timeoutRef, nShown, lastDismissal >>
  /\ UNCHANGED << location, isRecording, recordingsList, liveVars, refVars, audioVars, dbVars,
                  now, taskVars, alertCount, nCallbacks, sessionVars, storeCallVars,
                  timeRange, selectionVars, markerPress, conversions, mounted >>

\* The callback given to setTimeout, run once the timer is due: setNotification(null).
TimerFires ==
  /\ \E t \in timers :
       /\ t.left = 0
       /\ timers' = timers \ { t }
       /\ lastDismissal' = Dismissal("timer", t.id)
  /\ notification' = None
  /\ UNCHANGED << timeoutRef, nShown >>
  /\ UNCHANGED << location, isRecording, recordingsList, liveVars, refVars, audioVars, dbVars,
                  now, taskVars, alertCount, nCallbacks, sessionVars, storeCallVars,
                  timeRange, selectionVars, markerPress, conversions, mounted >>

\* clearNotification()
ClearNotification ==
  /\ timers' = clearTimeout(timeoutRef, timers)
  /\ timeoutRef' = None
  /\ notification' = None
  /\ lastDismissal' = Dismissal("clearNotification", 0)
  /\ UNCHANGED nShown
  /\ UNCHANGED << location, isRecording, recordingsList, liveVars, refVars, audioVars, dbVars,
                  now, taskVars, alertCount, nCallbacks, sessionVars, storeCallVars,
                  timeRange, selectionVars, markerPress, conversions, mounted >>

NextNotification ==
  \/ ShowNotification
  \/ Elapse
  \/ TimerFires
  \/ ClearNotification

\* Time passes, and a timer that is due and not cleared fires.
SpecNotification ==
  Init /\ [][NextNotification]_vars /\ WF_vars(Elapse) /\ WF_vars(TimerFires)

\* Notification k is on display.
Shown(k) == notification # None /\ notification[1].id = k

\* C30: a notification is taken down only by its own timer or by
\* clearNotification, never by the timer of an earlier notification; at most one
\* timer is pending at any time; every notification shown is eventually cleared.
C30_DismissedByOwnTimerOrClear ==
  /\ [][ (notification # None /\ notification' = None)
           => /\ lastDismissal' # None
              /\ lastDismissal'[1].shown = notification[1].id
              /\ \/ lastDismissal'[1].by = "clearNotification"
                 \/ /\ lastDismissal'[1].by = "timer"
                    /\ lastDismissal'[1].timer = notification[1].id ]_vars
  /\ [] (Cardinality(timers) <= 1)
  /\ \A k \in 1..MaxNotifications : Shown(k) ~> ~Shown(k)

\* C30 witness: two notifications were shown; the second was taken down by its
\* own timer, and no timer is left pending.
C30_Witness ==
  /\ nShown = 2
  /\ notification = None
  /\ timers = {}
  /\ timeoutRef = Some(2)
  /\ lastDismissal = Some([ shown |-> 2, by |-> "timer", timer |-> 2 ])

=============================================================================
